---- MODULE Spec2Model ----
(***************************************************************************)
(* QubesDB-over-virtio-serial configuration transfer:                      *)
(*   scripts/qubesdb-config-inject.py  (host side sender)                   *)
(*   scripts/qubesdb-config-read.py    (guest side receiver and cache)      *)
(*                                                                         *)
(* Text and byte strings are sequences of one-character strings.  A Python *)
(* dict is a sequence of <<key, value>> pairs with pairwise distinct keys, *)
(* in insertion order.                                                     *)
(***************************************************************************)
EXTENDS Integers, Sequences, FiniteSets, TLC

(* ------------------------------ bounds --------------------------------- *)
\* timeout of read_from_virtio in seconds (30 in the program)
Timeout == 2
\* number of receiver runs (boots) explored
MaxRuns == 2
\* number of payloads the sender delivers
MaxSends == 2

(* ------------------------- program constants --------------------------- *)
\* f.read(4096)
ChunkSize == 4096
QUBESDB_HEADER ==
  <<"Q","U","B","E","S","D","B","-","K","V","M","-","C","O","N","F","I","G","\n">>
QUBESDB_FOOTER ==
  <<"\n","Q","U","B","E","S","D","B","-","E","N","D","\n">>
\* the literals of the skip test  line in ("QUBESDB-KVM-CONFIG", "QUBESDB-END", "")
HeaderText == <<"Q","U","B","E","S","D","B","-","K","V","M","-","C","O","N","F","I","G">>
FooterText == <<"Q","U","B","E","S","D","B","-","E","N","D">>

(* ------------------------- Python str helpers -------------------------- *)
\* characters str.splitlines() breaks on (of the model's alphabet)
IsLineBreak(c) == c \in {"\n", "\r"}
\* characters str.strip() removes (of the model's alphabet)
IsSpace(c) == c \in {" ", "\t", "\n", "\r"}

\* pat in data
MatchAt(data, pat, i) ==
  \/ pat = <<>>
  \/ data[i] = pat[1] /\ SubSeq(data, i, i + Len(pat) - 1) = pat

Contains(data, pat) == \E i \in 1..(Len(data) - Len(pat) + 1) : MatchAt(data, pat, i)

\* data.find(pat) + 1, 0 when absent
FindFirst(data, pat) ==
  IF Contains(data, pat)
  THEN CHOOSE i \in 1..(Len(data) - Len(pat) + 1) :
         /\ MatchAt(data, pat, i)
         /\ \A j \in 1..(i - 1) : ~MatchAt(data, pat, j)
  ELSE 0

\* the line boundary that starts at text[i]: "\r\n" is one boundary
IsBreakStart(text, i) ==
  /\ IsLineBreak(text[i])
  /\ ~(text[i] = "\n" /\ i > 1 /\ text[i - 1] = "\r")
BreakLen(text, i) ==
  IF text[i] = "\r" /\ i < Len(text) /\ text[i + 1] = "\n" THEN 2 ELSE 1

\* text.splitlines(): the pieces between line boundaries, no empty last piece
SplitLines(text) ==
  LET breaks == {i \in 1..Len(text) : IsBreakStart(text, i)}
      \* the k-th boundary, in order
      brk(k) == CHOOSE i \in breaks : Cardinality({j \in breaks : j < i}) = k - 1
      n == Cardinality(breaks)
      start(k) == IF k = 1 THEN 1 ELSE brk(k - 1) + BreakLen(text, brk(k - 1))
      tail == IF n = 0 THEN text ELSE SubSeq(text, start(n + 1), Len(text))
      ended == [k \in 1..n |-> SubSeq(text, start(k), brk(k) - 1)]
  IN  IF tail = <<>> THEN ended ELSE Append(ended, tail)

RECURSIVE LStripSpace(_)
LStripSpace(s) ==
  IF s # <<>> /\ IsSpace(Head(s)) THEN LStripSpace(Tail(s)) ELSE s

RECURSIVE RStripSpace(_)
RStripSpace(s) ==
  IF s # <<>> /\ IsSpace(s[Len(s)]) THEN RStripSpace(SubSeq(s, 1, Len(s) - 1)) ELSE s

\* line.strip()
Strip(s) == RStripSpace(LStripSpace(s))

\* "=" in line
HasEq(line) == \E i \in 1..Len(line) : line[i] = "="

\* line.split("=", 1)
SplitFirstEq(line) ==
  LET p == CHOOSE i \in 1..Len(line) :
             line[i] = "=" /\ \A j \in 1..(i - 1) : line[j] # "="
  IN  <<SubSeq(line, 1, p - 1), SubSeq(line, p + 1, Len(line))>>

RECURSIVE LStripChar(_, _)
\* k.lstrip("/")
LStripChar(s, c) ==
  IF s # <<>> /\ Head(s) = c THEN LStripChar(Tail(s), c) ELSE s

\* s.replace(a, b) for single characters
Replace(s, a, b) == [i \in 1..Len(s) |-> IF s[i] = a THEN b ELSE s[i]]

(* ---------------------------- Python dict ------------------------------ *)
EmptyDict == <<>>
DictKeys(d) == {d[i][1] : i \in 1..Len(d)}
DictHas(d, k) == k \in DictKeys(d)
DictGet(d, k) == d[CHOOSE i \in 1..Len(d) : d[i][1] = k][2]
\* d[k] = v : a present key keeps its position, a new key is appended
DictSet(d, k, v) ==
  IF DictHas(d, k)
  THEN [i \in 1..Len(d) |-> IF d[i][1] = k THEN <<k, v>> ELSE d[i]]
  ELSE Append(d, <<k, v>>)
\* d1 == d2 (order is not significant)
DictEq(d1, d2) ==
  /\ DictKeys(d1) = DictKeys(d2)
  /\ \A k \in DictKeys(d1) : DictGet(d1, k) = DictGet(d2, k)

(* ------------------------------ codecs --------------------------------- *)
\* str.encode(): UTF-8; "e'" stands for a two-byte character
EncodeChar(c) == IF c = "e'" THEN <<"xC3", "xA9">> ELSE <<c>>

RECURSIVE Encode(_)
\* str.encode()
Encode(s) ==
  IF s = <<>> THEN <<>>
  ELSE IF Len(s) = 1 THEN EncodeChar(s[1])
  ELSE LET h == Len(s) \div 2
       IN  Encode(SubSeq(s, 1, h)) \o Encode(SubSeq(s, h + 1, Len(s)))

\* what the decoder makes of the byte at b[i]; "" for a continuation byte that
\* was consumed with the byte before it
DecodeAt(b, i) ==
  IF b[i] = "xC3" /\ i < Len(b) /\ b[i + 1] = "xA9" THEN "e'"
  ELSE IF b[i] = "xA9" /\ i > 1 /\ b[i - 1] = "xC3" THEN ""
  ELSE IF b[i] \in {"xC3", "xA9"} THEN "uFFFD"
  ELSE b[i]

Consumed(c) == c # ""

\* bytes.decode("utf-8", errors="replace")
Decode(b) == SelectSeq([i \in 1..Len(b) |-> DecodeAt(b, i)], Consumed)

(* --------------------- sender: frame construction ---------------------- *)
RECURSIVE RenderLines(_)
\* for k, v in entries.items(): payload += f"{k}={v}\n"
RenderLines(d) ==
  IF d = <<>> THEN <<>>
  ELSE d[1][1] \o <<"=">> \o d[1][2] \o <<"\n">> \o RenderLines(Tail(d))

\* inject: payload = HEADER + lines + FOOTER ; payload.encode()
Payload(d) == Encode(QUBESDB_HEADER \o RenderLines(d) \o QUBESDB_FOOTER)

(* ----------------------- receiver: frame parsing ----------------------- *)
\* line in ("QUBESDB-KVM-CONFIG", "QUBESDB-END", "")
IsSkippedLine(line) == line \in {HeaderText, FooterText, <<>>}

\* one iteration of  for line in text.splitlines()
ParseLine(d, rawline) ==
  LET line == Strip(rawline)
  IN  IF IsSkippedLine(line) THEN d
      ELSE IF HasEq(line)
           THEN DictSet(d, SplitFirstEq(line)[1], SplitFirstEq(line)[2])
           ELSE d

RECURSIVE ParseLines(_, _)
ParseLines(d, lines) ==
  IF lines = <<>> THEN d ELSE ParseLines(ParseLine(d, Head(lines)), Tail(lines))

\* the part of the buffer that is parsed once the read loop has ended
ParsedBuffer(data) == data

\* lines 53-60: decode the buffer, then parse its lines into entries
ParseData(data) == ParseLines(EmptyDict, SplitLines(Decode(ParsedBuffer(data))))

\* if QUBESDB_FOOTER in data: break
FooterSeen(data) == Contains(data, QUBESDB_FOOTER)

(* ------------------------------- cache --------------------------------- *)
\* the aggregate document is a sequence of JSON tokens
LBrace == [t |-> "{", k |-> <<>>, v |-> <<>>]
RBrace == [t |-> "}", k |-> <<>>, v |-> <<>>]
Member(k, v) == [t |-> "member", k |-> k, v |-> v]

\* a dump that loses the last member of the mapping
JsonDumpDropsLast(d) ==
  <<LBrace>> \o [i \in 1..(Len(d) - 1) |-> Member(d[i][1], d[i][2])] \o <<RBrace>>

\* json.dump(entries, f, indent=2)
JsonDump(d) ==
  <<LBrace>> \o [i \in 1..Len(d) |-> Member(d[i][1], d[i][2])] \o <<RBrace>>

JsonWellFormed(doc) ==
  /\ Len(doc) >= 2
  /\ doc[1] = LBrace
  /\ doc[Len(doc)] = RBrace
  /\ \A i \in 2..(Len(doc) - 1) : doc[i].t = "member"

RECURSIVE JsonMembers(_, _)
JsonMembers(d, toks) ==
  IF toks = <<>> THEN d
  ELSE JsonMembers(DictSet(d, Head(toks).k, Head(toks).v), Tail(toks))

\* json.load(f): the dict, or JSONDecodeError raised
JsonLoad(doc) ==
  IF JsonWellFormed(doc)
  THEN [ok |-> TRUE, val |-> JsonMembers(EmptyDict, SubSeq(doc, 2, Len(doc) - 1))]
  ELSE [ok |-> FALSE, val |-> EmptyDict]

\* a file that does not exist
NoFile == [exists |-> FALSE, content |-> <<>>]
\* open(path, "w"): the file exists and is empty
Truncated == [exists |-> TRUE, content |-> <<>>]
FileWith(c) == [exists |-> TRUE, content |-> c]

\* load_cache() on an aggregate document
LoadCache(agg) ==
  IF agg.exists THEN JsonLoad(agg.content) ELSE [ok |-> TRUE, val |-> EmptyDict]

\* safe_key = k.lstrip("/").replace("/", "_")
SafeKey(k) == Replace(LStripChar(k, "/"), "/", "_")

\* os.path.join(qubesdb_dir, safe_key) names a directory: open(..., "w") raises
IsDirectoryName(name) == name \in {<<>>, <<".">>, <<".", ".">>}

(* ------------------------------- inputs -------------------------------- *)
\* the entries a sender invocation may be given
SetA == << <<(<<"/", "a">>), (<<"1">>)>> >>
SetB == << <<(<<"/", "a", "/", "b">>), (<<"2">>)>>, <<(<<"a", "_", "b">>), (<<"3">>)>> >>
SetD == << <<(<<"/">>), (<<"5">>)>> >>
SenderSets == {SetA, SetB, SetD}
\* the keys a --get query may ask for
QueryKeys == {<<"/", "a">>, <<"a", "_", "b">>}

(* -------------------------------- state -------------------------------- *)
VARIABLES
  portExists,   \* os.path.exists(VIRTIO_PORT)
  chan,         \* bytes written by the sender and not yet read by the receiver
  sends,        \* payloads delivered so far
  sendResult,   \* what the last sender invocation reported
  rpc,          \* the receiver's position: the line of main, read_from_virtio or save_cache it is at
  runs,         \* receiver runs started so far
  waited,       \* read_from_virtio: waited
  elapsed,      \* whole seconds of time.time() since deadline was computed
  data,         \* read_from_virtio: data
  entries,      \* read_from_virtio: entries, then main: entries
  idx,          \* save_cache: position of the loop over entries.items()
  outcome,      \* how the run ended
  reported,     \* the entry count last printed by the run, -1 before any
  aggFile,      \* CACHE_FILE
  entryFiles,   \* CACHE_DIR/entries: file name -> file
  diskAtStart,  \* history: both on-disk forms when the run started
  footerFound,  \* history: the read loop of this run ended by the break of line 49
  ioError,      \* history: the except of line 61 ran in this run: for open, or for
                \* a read with nothing or with bytes already in the buffer
  query,        \* what the last --get invocation observed
  rtStage,      \* round trip of one frame: "input", then "parsed"
  rtEntries,    \* round trip: the entries given to inject
  rtParsed,     \* round trip: the entries the receiver's parser makes of the payload
  argv,         \* sender: sys.argv
  stdin,        \* sender: sys.stdin, whether it is a terminal and the lines it yields
  environ,      \* sender: os.environ, the three variables the defaults read
  senderEntries, \* sender main: entries
  spc,          \* sender main: the line it is at
  usedDefault,  \* sender main: the branch of lines 87-103 was taken
  report,       \* sender: what inject printed and returned, and the exit status
  parseInput,   \* parsing of one buffer: the lines of the decoded text
  parseOutput,  \* parsing of one buffer: the entries lines 54-60 make of them
  parseStage    \* parsing of one buffer: "input", then "parsed"

vars == <<portExists, chan, sends, sendResult, rpc, runs, waited, elapsed, data,
          entries, idx, outcome, reported, aggFile, entryFiles, diskAtStart,
          footerFound, ioError, query, rtStage, rtEntries, rtParsed, argv, stdin, environ,
          senderEntries, spc, usedDefault, report, parseInput, parseOutput,
          parseStage>>

envVars == <<portExists, chan, sends>>
runVars == <<rpc, runs, waited, elapsed, data, entries, idx, outcome, reported,
             diskAtStart, footerFound, ioError>>
rtVars == <<rtStage, rtEntries, rtParsed>>
senderVars == <<argv, stdin, environ, senderEntries, spc, usedDefault, report>>
parseVars == <<parseInput, parseOutput, parseStage>>
diskVars == <<aggFile, entryFiles>>

NoQuery == [status |-> "none", key |-> <<>>, value |-> <<>>]

\* sendResult and query hold what a sender or query process has just printed; the
\* process has exited, and its output is gone, by the next step of any other process
SenderSilent == sendResult' = "none"
QuerySilent == query' = NoQuery /\ UNCHANGED <<rtVars, senderVars, parseVars>>

\* The environment acts where the receiver can tell.  The port's existence is
\* read at lines 28-41 only, so a port event at another point has the effect of the
\* same event before the next run.  The cache is written at lines 69-78 only, so a
\* query at another point sees what a query before the run saw.  chan holds the
\* bytes in flight: a read returns any prefix of them, the empty one included, so
\* a delivery made while the receiver runs has the effect of one made before the
\* run whose bytes arrive late.
PortObserved == rpc \in {"idle", "L28", "L31", "L34", "L41"}
ChannelObserved == rpc = "idle"
CacheObserved == rpc \in {"idle", "L69", "L70", "L75", "L78", "done", "crashed"}

\* the state before anything ran: no cache, nothing in flight
BaseInit ==
  /\ portExists \in BOOLEAN
  /\ chan = <<>>
  /\ sends = 0
  /\ sendResult = "none"
  /\ rpc = "idle"
  /\ runs = 0
  /\ waited = 0
  /\ elapsed = 0
  /\ data = <<>>
  /\ entries = EmptyDict
  /\ idx = 0
  /\ outcome = "none"
  /\ reported = -1
  /\ aggFile = NoFile
  /\ entryFiles = <<>>
  /\ diskAtStart = [agg |-> NoFile, files |-> <<>>]
  /\ footerFound = FALSE
  /\ ioError = "none"
  /\ query = NoQuery

\* no round trip under way
RTIdle ==
  /\ rtStage = "input"
  /\ rtEntries = EmptyDict
  /\ rtParsed = EmptyDict

NoReport == [ok |-> FALSE, label |-> "none", detail |-> "none", count |-> 0,
             whole |-> FALSE, status |-> -1]

\* no sender's main under way
SenderIdle ==
  /\ argv = <<>>
  /\ stdin = [isatty |-> TRUE, lines |-> <<>>]
  /\ environ = [VM_NAME |-> <<>>, VM_MEM |-> <<>>, VM_CPUS |-> <<>>]
  /\ senderEntries = EmptyDict
  /\ spc = "idle"
  /\ usedDefault = FALSE
  /\ report = NoReport

\* no parsing of a single buffer under way
ParseIdle ==
  /\ parseInput = <<>>
  /\ parseOutput = EmptyDict
  /\ parseStage = "idle"

Init ==
  /\ BaseInit
  /\ RTIdle
  /\ SenderIdle
  /\ ParseIdle

(* ----------------------------- environment ----------------------------- *)
\* the guest device node appears
PortAppears ==
  /\ PortObserved
  /\ ~portExists
  /\ portExists' = TRUE
  /\ SenderSilent /\ QuerySilent
  /\ UNCHANGED <<chan, sends, runVars, diskVars>>

\* the guest device node goes away
PortVanishes ==
  /\ PortObserved
  /\ portExists
  /\ portExists' = FALSE
  /\ SenderSilent /\ QuerySilent
  /\ UNCHANGED <<chan, sends, runVars, diskVars>>

(* ------------------------------- sender -------------------------------- *)
\* inject(sock_path, entries): the whole payload is written and True is returned
InjectDelivered ==
  /\ ChannelObserved
  /\ sends < MaxSends
  /\ \E d \in SenderSets : chan' = chan \o Payload(d)
  /\ sends' = sends + 1
  /\ sendResult' = "Injected"
  /\ QuerySilent
  /\ UNCHANGED <<portExists, runVars, diskVars>>

\* inject(sock_path, entries): socat fails, the wait times out or the socket
\* raises; False is returned
InjectFailed ==
  /\ ChannelObserved
  /\ \E r \in {"socat error", "TIMEOUT", "ERROR"} : sendResult' = r
  /\ QuerySilent
  /\ UNCHANGED <<envVars, runVars, diskVars>>

(* ------------------------ receiver: wait phase ------------------------- *)
Min(a, b) == IF a < b THEN a ELSE b

\* main(): a no-argument invocation reaches line 112 and calls read_from_virtio
StartRun ==
  /\ rpc = "idle"
  /\ runs < MaxRuns
  /\ runs' = runs + 1
  /\ rpc' = "L28"
  /\ waited' = 0
  /\ elapsed' = 0
  /\ data' = <<>>
  /\ entries' = EmptyDict
  /\ idx' = 0
  /\ outcome' = "running"
  /\ reported' = -1
  /\ diskAtStart' = [agg |-> aggFile, files |-> entryFiles]
  /\ footerFound' = FALSE
  /\ ioError' = "none"
  /\ SenderSilent /\ QuerySilent
  /\ UNCHANGED <<envVars, diskVars>>

\* line 28: if not os.path.exists(VIRTIO_PORT)
CheckPort ==
  /\ rpc = "L28"
  /\ rpc' = IF portExists THEN "L41" ELSE "L31"
  /\ waited' = 0
  /\ SenderSilent /\ QuerySilent
  /\ UNCHANGED <<envVars, runs, elapsed, data, entries, idx, outcome, reported,
                 diskAtStart, footerFound, ioError, diskVars>>

\* line 31: while not os.path.exists(VIRTIO_PORT) and waited < timeout
WaitMore(exists, w) == ~exists /\ w < Timeout

\* lines 31-33: one poll that finds the port missing, sleep(1), waited += 1
WaitPoll ==
  /\ rpc = "L31"
  /\ WaitMore(portExists, waited)
  /\ waited' = waited + 1
  /\ SenderSilent /\ QuerySilent
  /\ UNCHANGED <<envVars, rpc, runs, elapsed, data, entries, idx, outcome, reported,
                 diskAtStart, footerFound, ioError, diskVars>>

\* line 31: the loop condition is false
WaitEnd ==
  /\ rpc = "L31"
  /\ ~WaitMore(portExists, waited)
  /\ rpc' = "L34"
  /\ SenderSilent /\ QuerySilent
  /\ UNCHANGED <<envVars, runs, waited, elapsed, data, entries, idx, outcome, reported,
                 diskAtStart, footerFound, ioError, diskVars>>

\* lines 34-36: the port is still missing: return {}
PortMissing ==
  /\ rpc = "L34"
  /\ ~portExists
  /\ rpc' = "L113"
  /\ entries' = EmptyDict
  /\ waited' = 0
  /\ elapsed' = 0
  /\ data' = <<>>
  /\ SenderSilent /\ QuerySilent
  /\ UNCHANGED <<envVars, runs, idx, outcome, reported, diskAtStart, footerFound, ioError, diskVars>>

\* line 34: the port is there; waited is not read again
PortFound ==
  /\ rpc = "L34"
  /\ portExists
  /\ rpc' = "L41"
  /\ waited' = 0
  /\ SenderSilent /\ QuerySilent
  /\ UNCHANGED <<envVars, runs, elapsed, data, entries, idx, outcome, reported,
                 diskAtStart, footerFound, ioError, diskVars>>

(* ------------------------ receiver: read phase ------------------------- *)
\* lines 41-43: open(VIRTIO_PORT, "rb"); data = b""; deadline = time.time() + timeout
OpenPort ==
  /\ rpc = "L41"
  /\ portExists
  /\ data' = <<>>
  /\ elapsed' = 0
  /\ rpc' = "L44"
  /\ SenderSilent /\ QuerySilent
  /\ UNCHANGED <<envVars, runs, waited, entries, idx, outcome, reported,
                 diskAtStart, footerFound, ioError, diskVars>>

\* lines 41, 61-64: open raises (the port went away after the check): return {}
OpenFails ==
  /\ rpc = "L41"
  /\ ~portExists
  /\ rpc' = "L113"
  /\ entries' = EmptyDict
  /\ ioError' = "open"
  /\ waited' = 0
  /\ elapsed' = 0
  /\ data' = <<>>
  /\ SenderSilent /\ QuerySilent
  /\ UNCHANGED <<envVars, runs, idx, outcome, reported, diskAtStart, footerFound, diskVars>>

\* line 44: while time.time() < deadline
BeforeDeadline(e) == e < Timeout

\* lines 44-45: the deadline has not passed, f.read(4096) is called.  The port
\* was opened in blocking mode and the call has no timeout of its own: when it
\* returns, and with what, is the transport's choice.
ReadCall ==
  /\ rpc = "L44"
  /\ BeforeDeadline(elapsed)
  /\ rpc' = "L45"
  /\ SenderSilent /\ QuerySilent
  /\ UNCHANGED <<envVars, runs, waited, elapsed, data, entries, idx, outcome, reported,
                 diskAtStart, footerFound, ioError, diskVars>>

\* a loop that keeps only the chunk read last
ReadChunkKeepsLast ==
  /\ rpc = "L45"
  /\ \E n \in 1..Min(ChunkSize, Len(chan)) :
       /\ data' = SubSeq(chan, 1, n)
       /\ chan' = SubSeq(chan, n + 1, Len(chan))
  /\ rpc' = IF FooterSeen(data') THEN "L53" ELSE "L44"
  /\ footerFound' = FooterSeen(data')
  /\ elapsed' = IF FooterSeen(data') THEN 0 ELSE elapsed
  /\ SenderSilent /\ QuerySilent
  /\ UNCHANGED <<portExists, sends, runs, waited, entries, idx, outcome,
                 reported, diskAtStart, ioError, diskVars>>

\* lines 45-49: the read returns bytes; on break the deadline is not read again
ReadChunk ==
  /\ rpc = "L45"
  /\ \E n \in 1..Min(ChunkSize, Len(chan)) :
       /\ data' = data \o SubSeq(chan, 1, n)
       /\ chan' = SubSeq(chan, n + 1, Len(chan))
  /\ rpc' = IF FooterSeen(data') THEN "L53" ELSE "L44"
  /\ footerFound' = FooterSeen(data')
  /\ elapsed' = IF FooterSeen(data') THEN 0 ELSE elapsed
  /\ SenderSilent /\ QuerySilent
  /\ UNCHANGED <<portExists, sends, runs, waited, entries, idx, outcome,
                 reported, diskAtStart, ioError, diskVars>>

\* a read of no bytes taken for the end of the stream
ReadNothingEndsStream ==
  /\ rpc = "L45"
  /\ rpc' = "L53"
  /\ SenderSilent /\ QuerySilent
  /\ UNCHANGED <<envVars, runs, waited, elapsed, data, entries, idx, outcome, reported,
                 diskAtStart, footerFound, ioError, diskVars>>

\* lines 45-46, 50: the read returns no bytes
ReadNothing ==
  /\ rpc = "L45"
  /\ rpc' = "L51"
  /\ SenderSilent /\ QuerySilent
  /\ UNCHANGED <<envVars, runs, waited, elapsed, data, entries, idx, outcome, reported,
                 diskAtStart, footerFound, ioError, diskVars>>

\* line 51: time.sleep(0.1) of dt seconds on the clock of whole seconds
Sleep(dt) ==
  /\ rpc = "L51"
  /\ rpc' = "L44"
  /\ elapsed' = elapsed + dt
  /\ SenderSilent /\ QuerySilent
  /\ UNCHANGED <<envVars, runs, waited, data, entries, idx, outcome, reported,
                 diskAtStart, footerFound, ioError, diskVars>>

\* line 51: elapsed counts whole seconds: the backoff stays within the second
\* or passes a second boundary, and the time the reads themselves take is the
\* time of the backoffs between them.
Backoff == Sleep(0) \/ Sleep(1)

\* an except clause that parses what the buffer held when the read raised
ReadErrorParsesBuffer ==
  /\ rpc = "L45"
  /\ rpc' = "L113"
  /\ entries' = ParseData(data)
  /\ ioError' = IF data = <<>> THEN "read" ELSE "read after data"
  /\ waited' = 0
  /\ elapsed' = 0
  /\ data' = <<>>
  /\ chan' = <<>>
  /\ SenderSilent /\ QuerySilent
  /\ UNCHANGED <<portExists, sends, runs, idx, outcome, reported, diskAtStart, footerFound, diskVars>>

\* lines 45, 61-64: f.read raises IOError/OSError: the with block closes the
\* port, entries stays {}
ReadError ==
  /\ rpc = "L45"
  /\ rpc' = "L113"
  /\ entries' = EmptyDict
  /\ ioError' = IF data = <<>> THEN "read" ELSE "read after data"
  /\ waited' = 0
  /\ elapsed' = 0
  /\ data' = <<>>
  /\ chan' = <<>>
  /\ SenderSilent /\ QuerySilent
  /\ UNCHANGED <<portExists, sends, runs, idx, outcome, reported, diskAtStart, footerFound, diskVars>>

\* line 44: the deadline has passed
ReadDeadline ==
  /\ rpc = "L44"
  /\ ~BeforeDeadline(elapsed)
  /\ rpc' = "L53"
  /\ elapsed' = 0
  /\ SenderSilent /\ QuerySilent
  /\ UNCHANGED <<envVars, runs, waited, data, entries, idx, outcome, reported,
                 diskAtStart, footerFound, ioError, diskVars>>

\* lines 53-60, 64: decode and parse the buffer, return entries.  The with block
\* closes the port, which drops the bytes it had not returned, and the locals of
\* read_from_virtio are gone.
ParseBuffer ==
  /\ rpc = "L53"
  /\ entries' = ParseData(data)
  /\ rpc' = "L113"
  /\ waited' = 0
  /\ elapsed' = 0
  /\ data' = <<>>
  /\ chan' = <<>>
  /\ SenderSilent /\ QuerySilent
  /\ UNCHANGED <<portExists, sends, runs, idx, outcome, reported, diskAtStart, footerFound, ioError, diskVars>>

(* --------------------- receiver: persist or fall back ------------------ *)
\* a main that persists whatever the read phase returned
ShouldSaveAlways(e) == TRUE

\* line 113: if entries
ShouldSave(e) == e # EmptyDict

\* line 113, taken: save_cache(entries) is called
MainSave ==
  /\ rpc = "L113"
  /\ ShouldSave(entries)
  /\ rpc' = "L69"
  /\ SenderSilent /\ QuerySilent
  /\ UNCHANGED <<envVars, runs, waited, elapsed, data, entries, idx, outcome, reported,
                 diskAtStart, footerFound, ioError, diskVars>>

\* a main that calls save_cache with the empty mapping too
MainFallbackSaves ==
  /\ rpc = "L113"
  /\ ~ShouldSave(entries)
  /\ rpc' = "L69"
  /\ SenderSilent /\ QuerySilent
  /\ UNCHANGED <<envVars, runs, waited, elapsed, data, entries, idx, outcome, reported,
                 diskAtStart, footerFound, ioError, diskVars>>

\* line 113, not taken
MainFallback ==
  /\ rpc = "L113"
  /\ ~ShouldSave(entries)
  /\ rpc' = "L119"
  /\ SenderSilent /\ QuerySilent
  /\ UNCHANGED <<envVars, runs, waited, elapsed, data, entries, idx, outcome, reported,
                 diskAtStart, footerFound, ioError, diskVars>>

\* lines 68-69: open(CACHE_FILE, "w") truncates the aggregate document in place
SaveOpenAggregate ==
  /\ rpc = "L69"
  /\ aggFile' = Truncated
  /\ rpc' = "L70"
  /\ SenderSilent /\ QuerySilent
  /\ UNCHANGED <<envVars, runs, waited, elapsed, data, entries, idx, outcome, reported,
                 diskAtStart, footerFound, ioError, entryFiles>>

\* lines 70-71: json.dump, the file is closed (its buffer flushed), the count printed
SaveDumpAggregate ==
  /\ rpc = "L70"
  /\ aggFile' = FileWith(JsonDump(entries))
  /\ reported' = Len(entries)
  /\ idx' = 1
  /\ rpc' = "L75"
  /\ SenderSilent /\ QuerySilent
  /\ UNCHANGED <<envVars, runs, waited, elapsed, data, entries, outcome,
                 diskAtStart, footerFound, ioError, entryFiles>>

\* the file system with file name set to f
PutFile(files, name, f) == (name :> f) @@ files

\* lines 75-77: the next entry's file is opened for writing, which truncates it
SaveOpenEntry ==
  /\ rpc = "L75"
  /\ idx <= Len(entries)
  /\ ~IsDirectoryName(SafeKey(entries[idx][1]))
  /\ entryFiles' = PutFile(entryFiles, SafeKey(entries[idx][1]), Truncated)
  /\ rpc' = "L78"
  /\ SenderSilent /\ QuerySilent
  /\ UNCHANGED <<envVars, runs, waited, elapsed, data, entries, idx, outcome, reported,
                 diskAtStart, footerFound, ioError, aggFile>>

\* line 77: the safe key names the entries directory itself: open raises
\* IsADirectoryError, which nothing catches
SaveOpenEntryFails ==
  /\ rpc = "L75"
  /\ idx <= Len(entries)
  /\ IsDirectoryName(SafeKey(entries[idx][1]))
  /\ outcome' = "crashed"
  /\ rpc' = "crashed"
  /\ SenderSilent /\ QuerySilent
  /\ UNCHANGED <<envVars, runs, waited, elapsed, data, entries, idx, reported,
                 diskAtStart, footerFound, ioError, diskVars>>

\* line 78: f.write(v), the file is closed
SaveWriteEntry ==
  /\ rpc = "L78"
  /\ entryFiles' = PutFile(entryFiles, SafeKey(entries[idx][1]), FileWith(entries[idx][2]))
  /\ idx' = idx + 1
  /\ rpc' = "L75"
  /\ SenderSilent /\ QuerySilent
  /\ UNCHANGED <<envVars, runs, waited, elapsed, data, entries, outcome, reported,
                 diskAtStart, footerFound, ioError, aggFile>>

\* lines 75, 115-117: the loop is over, save_cache returns, main reports the count
MainReport ==
  /\ rpc = "L75"
  /\ idx > Len(entries)
  /\ reported' = Len(entries)
  /\ outcome' = "fresh"
  /\ rpc' = "done"
  /\ SenderSilent /\ QuerySilent
  /\ UNCHANGED <<envVars, runs, waited, elapsed, data, entries, idx,
                 diskAtStart, footerFound, ioError, diskVars>>

\* lines 119-123: cached = load_cache(); served from the cache, or nothing at all
MainCached ==
  /\ rpc = "L119"
  /\ LET cached == LoadCache(aggFile)
     IN  IF ~cached.ok
         THEN /\ outcome' = "crashed"
              /\ rpc' = "crashed"
              /\ UNCHANGED reported
         ELSE /\ outcome' = IF cached.val # EmptyDict THEN "cache" ELSE "unavailable"
              /\ reported' = IF cached.val # EmptyDict THEN Len(cached.val) ELSE reported
              /\ rpc' = "done"
  /\ SenderSilent /\ QuerySilent
  /\ UNCHANGED <<envVars, runs, waited, elapsed, data, entries, idx,
                 diskAtStart, footerFound, ioError, diskVars>>

\* the exit status of a run that ended with outcome o: main returns after line
\* 117 or 123 without calling sys.exit, so the status is 0; an exception that
\* nothing catches ends the interpreter with status 1
ExitStatus(o) == IF o = "crashed" THEN 1 ELSE 0

\* the process exits: normally after line 117 or 123, or with the traceback of
\* an exception nothing caught
Exit ==
  /\ rpc \in {"done", "crashed"}
  /\ rpc' = "idle"
  /\ waited' = 0
  /\ elapsed' = 0
  /\ data' = <<>>
  /\ entries' = EmptyDict
  /\ idx' = 0
  /\ outcome' = "none"
  /\ reported' = -1
  /\ diskAtStart' = [agg |-> aggFile, files |-> entryFiles]
  /\ footerFound' = FALSE
  /\ ioError' = "none"
  /\ SenderSilent /\ QuerySilent
  /\ UNCHANGED <<envVars, runs, diskVars>>

(* ------------------------------- queries ------------------------------- *)
\* lines 92-98: what --get KEY prints for an aggregate document
Get(agg, key) ==
  LET loaded == LoadCache(agg)
  IN  IF ~loaded.ok
      THEN [status |-> "JSONDecodeError", key |-> key, value |-> <<>>]
      ELSE IF DictHas(loaded.val, key)
      THEN [status |-> "found", key |-> key, value |-> DictGet(loaded.val, key)]
      ELSE [status |-> "Key not found", key |-> key, value |-> <<>>]

\* lines 89-99: --get KEY
QueryGet ==
  /\ CacheObserved
  /\ \E key \in QueryKeys : query' = Get(aggFile, key)
  /\ SenderSilent
  /\ UNCHANGED <<envVars, runVars, diskVars, rtVars, senderVars, parseVars>>

(* ---------------------------- specification ---------------------------- *)
Receiver ==
  \/ StartRun \/ CheckPort \/ WaitPoll \/ WaitEnd \/ PortMissing \/ PortFound
  \/ OpenPort \/ OpenFails \/ ReadCall \/ ReadChunk \/ ReadNothing \/ ReadError
  \/ Backoff \/ ReadDeadline \/ ParseBuffer \/ MainSave \/ MainFallback
  \/ SaveOpenAggregate \/ SaveDumpAggregate \/ SaveOpenEntry \/ SaveOpenEntryFails
  \/ SaveWriteEntry \/ MainReport \/ MainCached \/ Exit

Next ==
  \/ PortAppears \/ PortVanishes
  \/ InjectDelivered \/ InjectFailed
  \/ Receiver
  \/ QueryGet

Spec == Init /\ [][Next]_vars

(* ------------------------ fairness of the receiver --------------------- *)
\* The steps the running process takes by itself.  When a read returns, with
\* which bytes, and whether it raises, is the transport's choice (ReadChunk,
\* ReadNothing, ReadError), and nothing makes a next boot happen (StartRun).
ControlSteps ==
  \/ CheckPort \/ WaitPoll \/ WaitEnd \/ PortMissing \/ PortFound
  \/ OpenPort \/ OpenFails \/ ReadCall \/ Backoff \/ ReadDeadline
  \/ MainSave \/ MainFallback
  \/ SaveOpenAggregate \/ SaveDumpAggregate \/ SaveOpenEntry \/ SaveOpenEntryFails
  \/ SaveWriteEntry \/ MainReport \/ MainCached \/ Exit

\* ParseBuffer, seen on the control point alone: the steps of Spec from line 53
\* to line 113 are the steps of ParseBuffer, which is enabled whenever rpc = "L53"
ParseReturns == rpc = "L53" /\ rpc' = "L113"

\* Time passes: of the backoffs of a read loop that goes on, some pass a second
\* boundary.
FairSpec ==
  Spec /\ WF_vars(ControlSteps) /\ WF_rpc(ParseReturns) /\ SF_vars(Sleep(1))

\* f.read(4096) returns: with bytes, with none, or by raising
ReadReturns == rpc = "L45" /\ rpc' \in {"L44", "L51", "L53", "L113"}

\* the behaviours of FairSpec in which no read blocks for ever
ReturningSpec == FairSpec /\ WF_rpc(ReadReturns)

(* ---------------------- round trip of a single frame ------------------- *)
\* keys without "=" and values, none empty
RTKeys == {<<"k">>, <<"/", "k">>, <<" ", "k">>, <<"k", " ">>}
RTValues == {<<"v">>, <<"v", "=", "w">>, <<" ", "v">>, <<"v", " ">>, <<"e'">>}
RTSets ==
  {<< <<k, v>> >> : k \in RTKeys, v \in RTValues}
  \cup {<< <<p[1], p[2]>>, <<p[3], p[4]>> >> :
          p \in {q \in RTKeys \X RTValues \X RTKeys \X RTValues : q[1] # q[3]}}

RTInit ==
  /\ BaseInit
  /\ rtStage = "input"
  /\ rtEntries \in RTSets
  /\ rtParsed = EmptyDict
  /\ SenderIdle
  /\ ParseIdle

\* inject builds the payload of rtEntries, the transport carries all of it, and
\* lines 53-60 of read_from_virtio parse the buffer that holds it
RoundTrip ==
  /\ rtStage = "input"
  /\ rtStage' = "parsed"
  /\ rtParsed' = ParseData(Payload(rtEntries))
  /\ UNCHANGED <<envVars, sendResult, runVars, diskVars, query, rtEntries,
                 senderVars, parseVars>>

RTNext == RoundTrip

RTSpec == RTInit /\ [][RTNext]_vars

(* ------------------------- sender: main and inject --------------------- *)
\* os.environ.get(name, default): an unset variable is the empty sequence here
EnvGet(env, name, default) == IF env[name] = <<>> THEN default ELSE env[name]

\* lines 87-102: the built-in entries
DefaultEntries(env) ==
  <<
     <<<<"/", "n", "a", "m", "e">>,
       EnvGet(env, "VM_NAME", <<"q", "u", "b", "e", "s", "-", "k", "v", "m", "-", "n", "o", "d", "e", "1">>)>>,
     <<<<"/", "t", "y", "p", "e">>,
       <<"A", "p", "p", "V", "M">>>>,
     <<<<"/", "l", "a", "b", "e", "l">>,
       <<"g", "r", "e", "e", "n">>>>,
     <<<<"/", "n", "e", "t", "v", "m">>,
       <<"s", "y", "s", "-", "f", "i", "r", "e", "w", "a", "l", "l">>>>,
     <<<<"/", "m", "e", "m", "o", "r", "y">>,
       EnvGet(env, "VM_MEM", <<"4", "0", "9", "6">>)>>,
     <<<<"/", "v", "c", "p", "u", "s">>,
       EnvGet(env, "VM_CPUS", <<"2">>)>>,
     <<<<"/", "q", "u", "b", "e", "s", "-", "v", "m", "-", "u", "p", "d", "a", "t", "e", "a", "b", "l", "e">>,
       <<"F", "a", "l", "s", "e">>>>,
     <<<<"/", "q", "u", "b", "e", "s", "-", "b", "a", "s", "e", "-", "t", "e", "m", "p", "l", "a", "t", "e">>,
       <<"f", "e", "d", "o", "r", "a", "-", "4", "1">>>>,
     <<<<"/", "q", "u", "b", "e", "s", "-", "v", "m", "-", "p", "e", "r", "s", "i", "s", "t", "e", "n", "c", "e">>,
       <<"f", "u", "l", "l">>>>,
     <<<<"/", "q", "u", "b", "e", "s", "-", "i", "p">>,
       <<"1", "0", ".", "1", "3", "7", ".", "0", ".", "1", "0", "0">>>>,
     <<<<"/", "q", "u", "b", "e", "s", "-", "n", "e", "t", "m", "a", "s", "k">>,
       <<"2", "5", "5", ".", "2", "5", "5", ".", "2", "5", "5", ".", "2", "5", "5">>>>,
     <<<<"/", "q", "u", "b", "e", "s", "-", "g", "a", "t", "e", "w", "a", "y">>,
       <<"1", "0", ".", "1", "3", "7", ".", "0", ".", "1">>>>,
     <<<<"/", "q", "u", "b", "e", "s", "-", "p", "r", "i", "m", "a", "r", "y", "-", "d", "n", "s">>,
       <<"1", "0", ".", "1", "3", "9", ".", "1", ".", "1">>>>,
     <<<<"/", "q", "u", "b", "e", "s", "-", "s", "e", "c", "o", "n", "d", "a", "r", "y", "-", "d", "n", "s">>,
       <<"1", "0", ".", "1", "3", "9", ".", "1", ".", "2">>>>
  >>

RECURSIVE MergeArgs(_, _)
\* lines 74-77: for arg in sys.argv[2:]
MergeArgs(d, args) ==
  IF args = <<>> THEN d
  ELSE MergeArgs(IF HasEq(Head(args))
                 THEN DictSet(d, SplitFirstEq(Head(args))[1], SplitFirstEq(Head(args))[2])
                 ELSE d,
                 Tail(args))

RECURSIVE MergeStdin(_, _)
\* lines 80-84: for line in sys.stdin, each line stripped first
MergeStdin(d, lines) ==
  IF lines = <<>> THEN d
  ELSE MergeStdin(IF HasEq(Strip(Head(lines)))
                  THEN DictSet(d, SplitFirstEq(Strip(Head(lines)))[1],
                                  SplitFirstEq(Strip(Head(lines)))[2])
                  ELSE d,
                  Tail(lines))

\* what the peer of the socket does with the connection: it accepts and reads
\* the frame, refuses the connection, is not there at all, accepts but stops
\* reading, or closes the connection while the frame is written
PeerConditions == {"accepts", "refuses", "missing", "stalls", "breaks"}

\* the error text the operating system (or socat, on its stderr) gives
ErrorText(cond) ==
  CASE cond = "refuses" -> "Connection refused"
    [] cond = "missing" -> "No such file or directory"
    [] cond = "breaks" -> "Broken pipe"

\* lines 22-63: inject(sock_path, entries), with socat found by shutil.which or
\* not, against a peer in condition cond
Inject(socat, cond, d) ==
  IF cond = "accepts"
  THEN [ok |-> TRUE, label |-> "Injected", detail |-> "none", count |-> Len(d),
        whole |-> TRUE]
  ELSE IF cond = "stalls"
  THEN [ok |-> FALSE, label |-> "TIMEOUT", detail |-> "none", count |-> 0,
        whole |-> FALSE]
  ELSE [ok |-> FALSE, label |-> IF socat THEN "socat error" ELSE "ERROR",
        detail |-> ErrorText(cond), count |-> 0, whole |-> FALSE]

\* the sender's inputs: argv[1] is the program, argv[2] the socket path
ProgName == <<"i">>
SockPath == <<"s">>
ArgTokens == {<<"a", "=", "1">>, <<"a", "=", "2">>, <<"b", "=", "3">>, <<"b">>}
ArgLists ==
  {<<ProgName>>, <<ProgName, SockPath>>}
  \cup {<<ProgName, SockPath, x>> : x \in ArgTokens}
  \cup {<<ProgName, SockPath, x, y>> : x \in ArgTokens, y \in ArgTokens}
StdinTokens == {<<"a", "=", "9">>, <<" ", "c", "=", "7", " ">>, <<"j">>, <<>>}
StdinLists ==
  {<<>>} \cup {<<x>> : x \in StdinTokens} \cup {<<x, y>> : x \in StdinTokens, y \in StdinTokens}
Stdins ==
  {[isatty |-> TRUE, lines |-> <<>>]} \cup {[isatty |-> FALSE, lines |-> l] : l \in StdinLists}
Environs ==
  {[VM_NAME |-> <<>>, VM_MEM |-> <<>>, VM_CPUS |-> <<>>],
   [VM_NAME |-> <<"n">>, VM_MEM |-> <<>>, VM_CPUS |-> <<"4">>]}

SenderInit ==
  /\ BaseInit
  /\ RTIdle
  /\ ParseIdle
  /\ argv \in ArgLists
  /\ stdin \in Stdins
  /\ environ \in Environs
  /\ senderEntries = EmptyDict
  /\ spc = "L67"
  /\ usedDefault = FALSE
  /\ report = NoReport

\* the sender's main leaves the receiver, the cache and the other inputs alone
SenderOnly ==
  UNCHANGED <<envVars, sendResult, runVars, diskVars, query, rtVars, parseVars,
              argv, stdin, environ>>

\* lines 67-69: no socket path given: usage on stderr, sys.exit(1)
SenderUsage ==
  /\ spc = "L67"
  /\ Len(argv) < 2
  /\ report' = [ok |-> FALSE, label |-> "Usage", detail |-> "none", count |-> 0,
                whole |-> FALSE, status |-> 1]
  /\ spc' = "exit"
  /\ SenderOnly
  /\ UNCHANGED <<senderEntries, usedDefault>>

\* lines 71-77: entries = {}, then the key=value arguments
SenderArgs ==
  /\ spc = "L67"
  /\ Len(argv) >= 2
  /\ senderEntries' = MergeArgs(EmptyDict, SubSeq(argv, 3, Len(argv)))
  /\ spc' = "L79"
  /\ SenderOnly
  /\ UNCHANGED <<usedDefault, report>>

\* lines 79-84: the lines of stdin, unless it is a terminal
SenderStdin ==
  /\ spc = "L79"
  /\ senderEntries' = IF stdin.isatty THEN senderEntries
                      ELSE MergeStdin(senderEntries, stdin.lines)
  /\ spc' = "L86"
  /\ SenderOnly
  /\ UNCHANGED <<usedDefault, report>>

\* lines 86-103: nothing was given: the built-in entries
SenderDefaults ==
  /\ spc = "L86"
  /\ senderEntries = EmptyDict
  /\ senderEntries' = DefaultEntries(environ)
  /\ usedDefault' = TRUE
  /\ spc' = "L105"
  /\ SenderOnly
  /\ UNCHANGED report

\* line 86: entries were given
SenderKeep ==
  /\ spc = "L86"
  /\ senderEntries # EmptyDict
  /\ spc' = "L105"
  /\ SenderOnly
  /\ UNCHANGED <<senderEntries, usedDefault, report>>

\* lines 105-106: ok = inject(sock_path, entries); sys.exit(0 if ok else 1)
SenderInject ==
  /\ spc = "L105"
  /\ \E socat \in BOOLEAN, cond \in PeerConditions :
       LET res == Inject(socat, cond, senderEntries)
       IN  report' = [ok |-> res.ok, label |-> res.label, detail |-> res.detail,
                      count |-> res.count, whole |-> res.whole,
                      status |-> IF res.ok THEN 0 ELSE 1]
  /\ spc' = "exit"
  /\ SenderOnly
  /\ UNCHANGED <<senderEntries, usedDefault>>

SenderNext ==
  \/ SenderUsage \/ SenderArgs \/ SenderStdin \/ SenderDefaults \/ SenderKeep
  \/ SenderInject

SenderSpec == SenderInit /\ [][SenderNext]_vars

(* ------------------------ parsing of a single buffer ------------------- *)
RECURSIVE JoinLines(_)
\* each line followed by "\n"
JoinLines(lines) ==
  IF lines = <<>> THEN <<>> ELSE Head(lines) \o <<"\n">> \o JoinLines(Tail(lines))

\* the bytes of a frame that carries the given lines between header and footer
FrameOf(lines) == Encode(QUBESDB_HEADER \o JoinLines(lines) \o QUBESDB_FOOTER)

\* lines a frame may carry: pairs, a repeated key, a value with "=", a line
\* without "=", a blank line, the marker texts, a pair with blanks around it
FrameLines ==
  {<<"k", "=", "v">>, <<"k", "=", "w">>, <<"m", "=", "v", "=", "w">>, <<"j">>, <<>>,
   HeaderText, FooterText, <<" ", "k", "=", "v", " ">>}
MaxLines == 3
LineLists == UNION {[1..n -> FrameLines] : n \in 0..MaxLines}

ParseInit ==
  /\ BaseInit
  /\ RTIdle
  /\ SenderIdle
  /\ parseInput \in LineLists
  /\ parseOutput = EmptyDict
  /\ parseStage = "input"

\* lines 53-60 of read_from_virtio applied to the buffer that holds the frame
ParseFrame ==
  /\ parseStage = "input"
  /\ parseStage' = "parsed"
  /\ parseOutput' = ParseData(FrameOf(parseInput))
  /\ UNCHANGED <<envVars, sendResult, runVars, diskVars, query, rtVars, senderVars,
                 parseInput>>

ParseNext == ParseFrame

ParseSpec == ParseInit /\ [][ParseNext]_vars

(* ------------------------------- claims -------------------------------- *)
\* save_cache is between its first write and its return
SavePhase == rpc \in {"L69", "L70", "L75", "L78"}

\* lines 75-78 run to the end: the per-key files a save of d writes over files
RECURSIVE FilesAfterSave(_, _)
FilesAfterSave(files, d) ==
  IF d = <<>> THEN files
  ELSE FilesAfterSave(PutFile(files, SafeKey(Head(d)[1]), FileWith(Head(d)[2])), Tail(d))

HasFile(files, name) == name \in DOMAIN files

\* the per-key files hold what a save of the aggregate's mapping writes
FormsAgree(agg, files) ==
  LET loaded == LoadCache(agg)
      written == FilesAfterSave(<<>>, loaded.val)
  IN  loaded.ok =>
        \A n \in DOMAIN written : HasFile(files, n) /\ files[n] = written[n]

\* the buffer up to and including the first footer marker
UpToFooter(buf) == SubSeq(buf, 1, FindFirst(buf, QUBESDB_FOOTER) + Len(QUBESDB_FOOTER) - 1)

\* C1: while a save of a new delivery is in flight over a cache whose two forms
\* agreed, a reader that can load the aggregate document finds the per-key files
\* holding the same delivery.
C1_FormsAgreeDuringSave ==
  (SavePhase /\ diskAtStart.agg.exists /\ FormsAgree(diskAtStart.agg, diskAtStart.files))
    => FormsAgree(aggFile, entryFiles)

\* C2: a --get that runs while a save is in flight answers from the complete
\* aggregate document of before the save or from the complete one the save
\* writes, never from a truncated one.
C2_GetSeesCompleteDocument ==
  (SavePhase /\ query.status # "none")
    => query \in {Get(diskAtStart.agg, query.key),
                  Get(FileWith(JsonDump(entries)), query.key)}

\* C3: a run whose read phase returned the empty mapping writes neither cache
\* form, so load_cache returns after the run what it returned before it, and
\* the run ends served from the cache or with nothing available.
C3_EmptyReadLeavesCache ==
  (rpc \in {"L113", "L119", "done", "crashed"} /\ entries = EmptyDict)
    => /\ aggFile = diskAtStart.agg
       /\ entryFiles = diskAtStart.files
       /\ LoadCache(aggFile) = LoadCache(diskAtStart.agg)
       /\ rpc = "done" => outcome \in {"cache", "unavailable"}

\* C3 witness: a run found nothing to read and ended served from a cache that an
\* earlier run had filled.
C3_Witness ==
  /\ rpc = "done"
  /\ outcome = "cache"
  /\ entries = EmptyDict
  /\ LoadCache(aggFile).val # EmptyDict
  /\ reported = Len(LoadCache(aggFile).val)

\* C4: a run whose read loop never saw the footer marker does not touch the
\* cache and does not end as a fresh read.
C4_NoFooterNoSave ==
  (rpc \in {"L113", "L69", "L70", "L75", "L78", "L119", "done", "crashed"} /\ ~footerFound)
    => /\ aggFile = diskAtStart.agg
       /\ entryFiles = diskAtStart.files
       /\ outcome # "fresh"

\* C5: at the end of a run whose read phase returned a non-empty mapping S,
\* load_cache returns S and nothing else, --get k prints S[k] for every key of
\* S, and the count that was reported is the number of keys of S.
C5_FreshReadReplacesCache ==
  (rpc \in {"done", "crashed"} /\ entries # EmptyDict)
    => /\ LoadCache(aggFile).ok
       /\ DictEq(LoadCache(aggFile).val, entries)
       /\ \A k \in DictKeys(entries) :
            Get(aggFile, k) = [status |-> "found", key |-> k, value |-> DictGet(entries, k)]
       /\ reported = Cardinality(DictKeys(entries))

\* C5 witness: a fresh read ended over a cache that held a different mapping.
C5_Witness ==
  /\ rpc = "done"
  /\ outcome = "fresh"
  /\ diskAtStart.agg.exists
  /\ LoadCache(diskAtStart.agg).ok
  /\ ~DictEq(LoadCache(diskAtStart.agg).val, entries)
  /\ DictEq(LoadCache(aggFile).val, entries)

\* C6: after a completed save, every key of the aggregate document has a per-key
\* file, named by the transform of the key, that holds exactly that key's value.
C6_EveryKeyHasItsValue ==
  (rpc = "done" /\ outcome = "fresh")
    => \A k \in DictKeys(LoadCache(aggFile).val) :
         /\ HasFile(entryFiles, SafeKey(k))
         /\ entryFiles[SafeKey(k)] = FileWith(DictGet(LoadCache(aggFile).val, k))

\* C7: after a completed save, the per-key directory holds a file only for the
\* keys of the mapping that was saved last.
C7_NoStaleFiles ==
  (rpc = "done" /\ outcome = "fresh")
    => DOMAIN entryFiles = {SafeKey(k) : k \in DictKeys(LoadCache(aggFile).val)}

\* C8: parsing the frame that the sender renders for a mapping (keys and values
\* not empty, no "=" in a key) gives the mapping back.
C8_RoundTrip == rtStage = "parsed" => DictEq(rtParsed, rtEntries)

\* C9: when the read loop ends because the footer marker is in the buffer, the
\* mapping returned is the parse of the buffer up to the first footer marker.
C9_ParsesUpToFooter ==
  [][(rpc = "L53" /\ footerFound /\ rpc' = "L113")
       => DictEq(entries', ParseLines(EmptyDict, SplitLines(Decode(UpToFooter(data)))))]_vars

\* C10: the wait loop never counts past Timeout polls, the read loop never runs
\* past its deadline, and a run that has started, wherever it is (waiting for
\* the port, reading, parsing, saving, falling back), reaches its end.
C10_RunTerminates ==
  /\ [](waited <= Timeout /\ elapsed <= Timeout)
  /\ (rpc \notin {"idle", "done", "crashed"}) ~> (rpc \in {"done", "crashed"})

\* the payloads of the sets a sender may be given
SingleFrames == {Payload(d) : d \in SenderSets}

\* the entries of the frame whose payload is p
FrameEntries(p) == CHOOSE d \in SenderSets : Payload(d) = p

\* C11: a read that returns no bytes leaves the loop running and the buffer as
\* it is (the receiver backs off and comes back to the loop test, it neither
\* parses nor returns), and when the loop then ends on the footer of a complete
\* frame, the mapping returned is the whole mapping of that frame.
C11_ZeroReadKeepsReading ==
  [][/\ (rpc = "L45" /\ rpc' # "L113" /\ data' = data) => rpc' = "L51"
     /\ rpc = "L51" => (rpc' = "L44" /\ data' = data /\ chan' = chan /\ entries' = entries)
     /\ (rpc = "L53" /\ footerFound /\ data \in SingleFrames /\ rpc' = "L113")
          => DictEq(entries', FrameEntries(data))]_vars

\* C11 witness: part of a frame has been read, a read of no bytes and its
\* backoff have passed a second boundary, and the read for the rest is under way
\* before the deadline.
C11_Witness ==
  /\ rpc = "L45"
  /\ elapsed >= 1
  /\ data # <<>>
  /\ chan # <<>>
  /\ data \o chan \in SingleFrames

\* C12: a run that returns from main ends with status 0 exactly when it
\* persisted a fresh read or served the cache, and with a non-zero status when
\* neither source gave a configuration.
C12_StatusTellsOutcome ==
  rpc = "done" => (ExitStatus(outcome) = 0 <=> outcome \in {"fresh", "cache"})

\* the entries the arguments alone give, and the entries the input stream alone gives
ArgEntries == MergeArgs(EmptyDict, SubSeq(argv, 3, Len(argv)))
StreamEntries == IF stdin.isatty THEN EmptyDict ELSE MergeStdin(EmptyDict, stdin.lines)

\* C13: when the sender's main calls inject, every key given both as an argument
\* and on the input stream carries the argument's value, the built-in entries
\* were taken exactly when arguments and stream together gave no entry, and the
\* entries handed to inject are not empty.
C13_ArgumentsOverrideStream ==
  spc = "L105" =>
    /\ \A k \in DictKeys(ArgEntries) \cap DictKeys(StreamEntries) :
         DictGet(senderEntries, k) = DictGet(ArgEntries, k)
    /\ usedDefault <=> (ArgEntries = EmptyDict /\ StreamEntries = EmptyDict)
    /\ senderEntries # EmptyDict

\* the outcome a caller reads off what the sender printed and returned
Outcome(r) ==
  CASE r.ok /\ r.label = "Injected" -> "Delivered"
    [] ~r.ok /\ r.label = "TIMEOUT" -> "Timeout"
    [] ~r.ok /\ r.label \in {"ERROR", "socat error"} /\ r.detail = "Connection refused" -> "Refused"
    [] ~r.ok /\ r.label \in {"ERROR", "socat error"} /\ r.detail = "No such file or directory" -> "NotFound"
    [] OTHER -> "other"

\* C14: a sender invocation that was given a socket path ends in one of
\* Delivered, Refused, Timeout and NotFound; Delivered is reported with the count
\* of the entries and only when the whole frame was written, and each of the
\* other three ends the process by sys.exit(1).
C14_OneOfFourOutcomes ==
  (spc = "exit" /\ Len(argv) >= 2) =>
    /\ Outcome(report) \in {"Delivered", "Refused", "Timeout", "NotFound"}
    /\ Outcome(report) = "Delivered" =>
         (report.whole /\ report.count = Len(senderEntries) /\ report.status = 0)
    /\ Outcome(report) # "Delivered" => report.status = 1

\* C15: the receiver comes to open the transport only by a step that sees the
\* port exist; a wait that ends with the port still missing returns no entries
\* without opening it; and a run that has ended has ended in one of three ways:
\* a fresh read persisted, the cache served, or no configuration at all.
C15_ThreeTerminalOutcomes ==
  /\ [][/\ (rpc # "L41" /\ rpc' = "L41") => portExists
        /\ (rpc # "L44" /\ rpc' = "L44") => (rpc \in {"L41", "L45", "L51"})
        /\ (rpc = "L34" /\ ~portExists /\ rpc' # rpc) => (rpc' = "L113" /\ entries' = EmptyDict)
       ]_vars
  /\ [](rpc \in {"done", "crashed"} => outcome \in {"fresh", "cache", "unavailable"})

RECURSIVE SplitEachLine(_, _)
\* the pairs of the lines that hold "=", each line split as it stands at its
\* first "=", a later line replacing an earlier one for the same key; blank
\* lines, marker lines and lines without "=" pass
SplitEachLine(d, lines) ==
  IF lines = <<>> THEN d
  ELSE SplitEachLine(IF Head(lines) \notin {<<>>, HeaderText, FooterText} /\ HasEq(Head(lines))
                     THEN DictSet(d, SplitFirstEq(Head(lines))[1], SplitFirstEq(Head(lines))[2])
                     ELSE d,
                     Tail(lines))

\* C16: the entries parsed from a frame are exactly the pairs obtained by
\* splitting each of its lines that contains "=" at the first "=", the last
\* line for a key deciding its value; blank lines, marker lines and lines
\* without "=" add nothing and take nothing away.
C16_ParsedPairsAreLinePairs ==
  parseStage = "parsed" => DictEq(parseOutput, SplitEachLine(EmptyDict, parseInput))

\* the values the aggregate document holds for key: none when there is no
\* document or no member of that name
StoredValues(agg, key) ==
  IF agg.exists
  THEN {agg.content[i].v : i \in {j \in 1..Len(agg.content) :
                                     agg.content[j].t = "member" /\ agg.content[j].k = key}}
  ELSE {}

\* C17: whatever state the cache is in, a --get for a key prints the value the
\* aggregate document stores for it when the document has the key, and reports
\* "Key not found" when it has not, the case of no document included; it ends
\* in no other way, and the step leaves both on-disk forms as they were.
C17_GetFindsOrReportsAbsent ==
  /\ [](query.status # "none" =>
          /\ query.status \in {"found", "Key not found"}
          /\ query.status = "found" <=> StoredValues(aggFile, query.key) # {}
          /\ query.status = "found" => query.value \in StoredValues(aggFile, query.key))
  /\ [][query' # NoQuery => UNCHANGED diskVars]_vars

\* C18: once open or a read has raised in a run, the read phase has returned the
\* empty mapping whatever the buffer held, the run is on the fallback path and
\* writes neither cache form, and it ends served from the cache or with no
\* configuration.
C18_IOErrorYieldsNothing ==
  ioError # "none" =>
    /\ entries = EmptyDict
    /\ rpc \in {"L113", "L119", "done"}
    /\ aggFile = diskAtStart.agg
    /\ entryFiles = diskAtStart.files
    /\ rpc = "done" => outcome \in {"cache", "unavailable"}

\* C18 witness: a read raised after bytes had been accumulated, and the run has
\* ended on the fallback path.
C18_Witness ==
  /\ ioError = "read after data"
  /\ rpc = "done"

\* C19: save_cache runs only with a non-empty mapping; and once the aggregate
\* document holds entries, load_cache never again returns the empty mapping from
\* it, and a run that has ended has left the document as it found it or has
\* written the non-empty mapping it read.
C19_CacheNeverEmptied ==
  /\ SavePhase => entries # EmptyDict
  /\ LoadCache(diskAtStart.agg).val # EmptyDict =>
       /\ LoadCache(aggFile) # [ok |-> TRUE, val |-> EmptyDict]
       /\ rpc \in {"idle", "done", "crashed"} =>
            \/ aggFile = diskAtStart.agg
            \/ entries # EmptyDict /\ aggFile = FileWith(JsonDump(entries))

\* C19 witness: the cache held entries, and a run that read a different frame
\* has replaced them.
C19_Witness ==
  /\ rpc = "done"
  /\ LoadCache(diskAtStart.agg).val # EmptyDict
  /\ aggFile # diskAtStart.agg
  /\ LoadCache(aggFile).val # EmptyDict

RECURSIVE Concat(_)
Concat(seqs) == IF seqs = <<>> THEN <<>> ELSE Head(seqs) \o Concat(Tail(seqs))

\* the byte streams the senders can have written before a run: up to MaxSends
\* frames, one after the other
FrameStreams ==
  UNION {{Concat(s) : s \in [1..n -> SingleFrames]} : n \in 0..MaxSends}

\* read_from_virtio is in its read loop or at the parse that follows it
ReadPhase == rpc \in {"L44", "L45", "L51", "L53"}

\* C20: however the stream is cut into chunks, the buffer and the bytes not yet
\* read make up the stream as it was written; for a single frame the loop ends
\* on the footer only when the buffer holds the whole frame, and the entries
\* then returned are those of the frame, the same for every chunking.
C20_ChunkingIndependence ==
  /\ [](ReadPhase => data \o chan \in FrameStreams)
  /\ [][/\ (rpc = "L45" /\ data \o chan \in SingleFrames /\ rpc' = "L53")
             => (footerFound' /\ data' = data \o chan /\ chan' = <<>>)
        /\ (rpc = "L53" /\ footerFound /\ data \o chan \in SingleFrames /\ rpc' = "L113")
             => DictEq(entries', ParseData(data \o chan))
       ]_vars

\* C20 witness: a single frame is being read, and the cut between the chunks
\* read so far and the bytes to come runs through the footer marker.
C20_Witness ==
  /\ rpc = "L45"
  /\ data \o chan \in SingleFrames
  /\ Len(data) > Len(QUBESDB_HEADER)
  /\ Len(chan) > 0
  /\ Len(chan) < Len(QUBESDB_FOOTER)

====
